---- MODULE Spec2Model ----
(***************************************************************************)
(* Verification gateway of the link-protection bot.                        *)
(*                                                                         *)
(* The repository holds two revisions of the bot:                          *)
(*   main     src/main.py  (FastAPI webhook; every update is handled in    *)
(*            its own asyncio task, so handlers interleave at their await  *)
(*            points)                                                      *)
(*   deepseek src/deepseek_python_20251206_9072e4.py (run_webhook with the *)
(*            default sequential update processing)                        *)
(* The variable rev fixes the revision a behaviour runs.  The MongoDB      *)
(* collections are the shared state; the Telegram transport is the         *)
(* environment: it supplies the events and the results of get_chat_member  *)
(* and of the sends.                                                       *)
(*                                                                         *)
(* A handler is split only where it awaits the transport between two       *)
(* accesses to the collections.  In main.py that is the case in            *)
(* handle_message alone (find_one ... await reply_text ... delete_one /    *)
(* update_one); every other handler touches the collections in a single    *)
(* uninterrupted run and is one action.                                    *)
(***************************************************************************)
EXTENDS Integers, Sequences, FiniteSets, TLC

\* ------------------------------------------------------------------ bounds
NumUsers  == 2
NumTokens == 2
NumCodes  == 1
MaxTasks  == 2
MaxEvents == 4
MaxRuns   == 2
MaxRecipients == 2

\* broadcast_text: the status message is edited when
\* (success_count + failed_count) % 10 == 0
StatusEvery == 10

Users   == 1..NumUsers
Tokens  == 1..NumTokens
TaskIds == 1..MaxTasks
RunIds  == 1..MaxRuns
\* user ids the directory can hold: the senders of updates and those who
\* registered before and send nothing now
Recipients == 1..MaxRecipients

\* The operator's Telegram id (environment variable ADMIN_USER_ID).
ADMIN_USER_ID == 1

\* generate_captcha_code: five decimal digits; the model draws the codes
\* d d d d d for d in 1..NumCodes.
CodeLength == 5
Codes == { [i \in 1..CodeLength |-> d] : d \in 1..NumCodes }

\* handle_verification_start: while existing_code and retry_count < 5
MaxRegenerations == 5

\* The decimal digits, as characters.
Digits == 0..9

\* Texts a recipient may send: the codes, a 5-digit number that is no code
\* of the model, a 4-digit and a 6-digit number.
Texts == Codes \cup { <<9, 9, 9, 9, 9>>, <<1, 2, 3, 4>>, <<1, 1, 1, 1, 1, 1>> }


\* str.isdigit() on a non-empty text
isdigit(text) == Len(text) > 0 /\ \A i \in 1..Len(text) : text[i] \in Digits

ChatTypes == {"private", "group"}

\* Results of bot.get_chat_member: a member status, or the exception raised
\* ("TimedOut" for the transport errors, which are neither BadRequest nor
\* Forbidden and reach the outer except).
MemberResults == {"member", "left", "Forbidden", "TimedOut"}
MemberStatuses == {"member", "administrator", "creator"}
TransportErrors == {"TimedOut"}

\* A link "scheme://host/seg[/seg][?query]" is the record of its parts.  The
\* first of two path segments is a word ("joinchat", "i", "c", ...); every
\* other segment and the query are sequences of characters.  Characters
\* are numbers: 0..9 the digits, 65..90 and 97..122 the letters, 43 "+",
\* 45 "-", 46 ".", 38 "&", 61 "=", 63 "?", 95 "_", 8226 the bullet.
Letters  == (65..90) \cup (97..122)
Word     == Digits \cup Letters \cup {95}
WordDash == Word \cup {45}
QueryChars == WordDash \cup {61, 38}

all_in(seg, chars) == \A i \in 1..Len(seg) : seg[i] \in chars

Link(scheme, host, path, query) ==
    [scheme |-> scheme, host |-> host, path |-> path, query |-> query]

LongCode  == <<65, 98, 67, 100, 69, 102, 1, 2, 3, 4, 5, 6>>
ShortCode == <<65, 98, 67, 1, 2, 3>>

\* Group links offered to /protect.
GoodLink == Link("https", "t.me", <<"joinchat", LongCode>>, <<>>)
BadLink  == Link("https", "example.com", <<"joinchat", LongCode>>, <<>>)
GroupLinks == {GoodLink, BadLink}

\* The link shapes of validate_telegram_link, with the near misses of each.
LinkShapes ==
    { GoodLink, BadLink,
      Link("https", "t.me", <<"joinchat", ShortCode>>, <<>>),
      Link("https", "t.me", <<"joinchat", <<>>>>, <<>>),
      Link("https", "t.me", <<"joinchat", ShortCode>>, <<97, 61, 1>>),
      Link("https", "t.me", <<"joinchat", LongCode>>, <<97, 46, 1>>),
      Link("https", "telegram.me", <<"joinchat", LongCode>>, <<>>),
      Link("http", "t.me", <<"joinchat", LongCode>>, <<>>),
      Link("https", "t.me", <<<<43>> \o LongCode>>, <<>>),
      Link("https", "t.me", <<<<43>> \o ShortCode>>, <<>>),
      Link("https", "t.me", <<<<43>>>>, <<>>),
      Link("https", "t.me", <<<<103, 114, 111, 117, 112>>>>, <<>>),
      Link("https", "t.me", <<<<103, 114, 111, 117>>>>, <<>>),
      Link("https", "t.me", <<<<103, 114, 111, 117, 45>>>>, <<>>),
      Link("https", "t.me", <<"i", ShortCode>>, <<>>),
      Link("https", "t.me", <<"c", <<1, 0, 0, 1, 2, 3>>>>, <<>>),
      Link("https", "t.me", <<"c", <<1, 0, 0, 97>>>>, <<>>),
      Link("https", "t.me", <<"s", ShortCode>>, <<>>),
      Link("https", "t.me", <<>>, <<>>) }
ProtectArgs == {<<>>} \cup { <<g>> : g \in GroupLinks }

\* Texts with "_" separators are sequences of their segments:
\* "check_verify_<token>" is <<"check", "verify", token>>.
StartArgs == {<<>>} \cup { <<"verify", tk>> : tk \in Tokens }
CallbackData ==
    {<<"check", "start">>, <<"check", "protect">>, <<"check", "message">>}
    \cup { <<"check", "verify", tk>> : tk \in Tokens }
    \cup { <<"verify", tk>> : tk \in Tokens }
    \cup { <<"copy", tk>> : tk \in Tokens }
    \cup { <<"share", "link", tk>> : tk \in Tokens }

startswith(s, prefix) ==
    Len(s) >= Len(prefix) /\ SubSeq(s, 1, Len(prefix)) = prefix

NoDoc == [id |-> 0]

\* What a message shows where it shows no link.
NoLink == Link("", "", <<>>, <<>>)

VARIABLES
    rev,        \* revision of the bot that runs
    gating,     \* SUPPORT_CHANNEL_ID is configured
    links,      \* links_collection
    captcha,    \* captcha_collection, in natural (insertion) order
    users,      \* users_collection
    next_id,    \* next _id of a captcha document
    purged,     \* tokens of links removed by the TTL index
    tasks,      \* main.py: handle_message tasks awaiting their reply_text
    nevents,    \* number of updates dispatched so far
    last,       \* the update handled last and what was sent for it
    released,   \* per token: release messages delivered
    rel_cnt,    \* per captcha _id: release messages delivered for it
    rel_code,   \* per user: code of the last release, until a new insert
    passed,     \* users for whom is_user_in_channel looked up and said True
    runs,       \* the broadcast coroutines: their local variables
    broadcasts  \* broadcasts_collection

vars == <<rev, gating, links, captcha, users, next_id, purged, tasks,
          nevents, last, released, rel_cnt, rel_code, passed, runs,
          broadcasts>>

\* What the gateway handlers leave alone.
broadcast_vars == <<runs, broadcasts>>

\* ------------------------------------------------------------- collections
token_of(l) == l.encoded

link_tokens == { l.encoded : l \in links }

\* links_collection.find_one({"encoded": encoded})
find_link(ls, encoded) ==
    IF \E l \in ls : l.encoded = encoded
    THEN CHOOSE l \in ls : l.encoded = encoded
    ELSE NoDoc

\* links_collection.update_one({"encoded": e}, {"$inc": {"verification_count": 1}})
inc_verification_count(ls, encoded) ==
    { IF l.encoded = encoded
      THEN [l EXCEPT !.verification_count = @ + 1]
      ELSE l : l \in ls }

RECURSIVE filter_out(_, _, _)
\* the documents of cs except those at the positions in drop
filter_out(cs, drop, i) ==
    IF i > Len(cs) THEN <<>>
    ELSE IF i \in drop THEN filter_out(cs, drop, i + 1)
    ELSE <<cs[i]>> \o filter_out(cs, drop, i + 1)

positions(cs, user_id) == { i \in 1..Len(cs) : cs[i].user_id = user_id }

first_pos(S) == CHOOSE i \in S : \A j \in S : i <= j

\* captcha_collection.find_one({"user_id": user_id}): first in natural order
find_captcha_by_user(cs, user_id) ==
    IF positions(cs, user_id) = {} THEN NoDoc
    ELSE cs[first_pos(positions(cs, user_id))]

\* captcha_collection.find_one({"user_id": user_id, "encoded": encoded})
find_captcha(cs, user_id, encoded) ==
    LET S == { i \in positions(cs, user_id) : cs[i].encoded = encoded }
    IN  IF S = {} THEN NoDoc ELSE cs[first_pos(S)]

\* captcha_collection.delete_many({"user_id": user_id, "encoded": encoded})
delete_many(cs, user_id, encoded) ==
    filter_out(cs, { i \in positions(cs, user_id) : cs[i].encoded = encoded }, 1)

\* captcha_collection.delete_one({"user_id": user_id})
delete_one_by_user(cs, user_id) ==
    IF positions(cs, user_id) = {} THEN cs
    ELSE filter_out(cs, {first_pos(positions(cs, user_id))}, 1)

\* captcha_collection.delete_one({"_id": id})
delete_one_by_id(cs, id) ==
    filter_out(cs, { i \in 1..Len(cs) : cs[i].id = id }, 1)

captcha_ids == { captcha[i].id : i \in 1..Len(captcha) }

captcha_docs == { captcha[i] : i \in 1..Len(captcha) }

\* ------------------------------------------------------------ observations
NoReply == [reply |-> "none", cb |-> <<>>]

\* What the transport did with a handler's message: delivered, or the send
\* raised (the exception leaves the handler; error_handler reports it).
Deliver(r, ok) ==
    IF r.reply = "none" \/ ok THEN r ELSE [reply |-> "error", cb |-> <<>>]

\* The link a message text shows and the URL of its direct-open button.
text_link_of(r) == IF "text_link" \in DOMAIN r THEN r.text_link ELSE NoLink
url_of(r) == IF "url" \in DOMAIN r THEN r.url ELSE NoLink

\* The outcome of one update, as last shows it: the handler, the sender, the
\* command's arguments, the callback_data or the text, whether the
\* membership gate let the update through, the message sent with the
\* callback_data of its control, the link its text shows and the URL of its
\* button, the _id of the captcha document the handler evaluated or
\* inserted, whether the text repeats the code of the sender's last release
\* with no insert since, what get_chat_member answered, the number of
\* insert_one calls made on links_collection or captcha_collection, and the
\* number of codes drawn after the first for one Challenge: the handlers
\* that store a Challenge call generate_captcha_code once and do not look
\* the code up (the loop that draws again stands in
\* handle_verification_start, which no handler calls), and for a text
\* message the type of the chat it came in.
Handled(handler, user, payload, gate, r, doc, later) ==
    [handler |-> handler, user |-> user, payload |-> payload,
     gate |-> gate, reply |-> r.reply, cb |-> r.cb, doc |-> doc,
     later |-> later, text_link |-> text_link_of(r), url |-> url_of(r),
     lookup |-> "none", inserts |-> 0, regenerations |-> 0,
     chat |-> "none"]

\* h, for a handler that called get_chat_member and got res
Looked(h, looked_up, res) ==
    IF looked_up THEN [h EXCEPT !.lookup = res] ELSE h

\* h, for a text message that came in a chat of type chat
InChat(h, chat) == [h EXCEPT !.chat = chat]

\* h, for a handler that called insert_one n times
Inserted(h, n) == [h EXCEPT !.inserts = n]

\* No update is being reported: process_update has returned.
Quiet == [handler |-> "none", user |-> 0, payload |-> <<>>, gate |-> "none",
          reply |-> "none", cb |-> <<>>, doc |-> 0, later |-> FALSE,
          text_link |-> NoLink, url |-> NoLink, lookup |-> "none",
          inserts |-> 0, regenerations |-> 0, chat |-> "none"]

\* A slot with no handle_message task in it.  A task keeps, besides what it
\* read, what get_chat_member answered at the gate ("none": not asked) and
\* the type of the chat the text came in.
Idle == [pc |-> "idle", user |-> 0, text |-> <<>>,
         branch |-> "none", captcha_data |-> NoDoc, link_data |-> NoDoc,
         later |-> FALSE, lookup |-> "none", chat |-> "none"]

idle_slots == { t \in TaskIds : tasks[t].pc = "idle" }

\* A broadcast coroutine that is not running: pc is where it stands;
\* sent_to, results and slept tell of each pass of the loop so far the
\* recipient of the send, its outcome and whether asyncio.sleep followed;
\* edits holds the values of success_count + failed_count at which the
\* status message was edited.  The locals are gone when the coroutine
\* returns.
NoRun == [pc |-> "idle", kind |-> "none", all_users |-> <<>>,
          total_users |-> 0, success_count |-> 0, failed_count |-> 0,
          sent_to |-> <<>>, results |-> <<>>, slept |-> <<>>,
          edits |-> <<>>, broadcast_id |-> 0]

\* A new captcha document for user u voids what rel_code and the waiting
\* tasks remember of u's last release.
forget_release(rc, u) == [rc EXCEPT ![u] = <<>>]

forget_later(ts, u) ==
    [t \in TaskIds |->
        IF ts[t].user = u THEN [ts[t] EXCEPT !.later = FALSE] ELSE ts[t]]

Init ==
    /\ rev \in {"main", "deepseek"}
    /\ gating \in BOOLEAN
    /\ (rev = "deepseek" => ~gating)
    /\ links = {}
    /\ captcha = <<>>
    /\ users = {}
    /\ next_id = 1
    /\ purged = {}
    /\ tasks = [t \in TaskIds |-> Idle]
    /\ nevents = 0
    /\ last = Quiet
    /\ released = [tk \in Tokens |-> 0]
    /\ rel_cnt = [i \in 1..MaxEvents |-> 0]
    /\ rel_code = [u \in Users |-> <<>>]
    /\ passed = {}
    /\ runs = [r \in RunIds |-> NoRun]
    /\ broadcasts = {}

\* ---------------------------------------------------------------- main.py
\* users_collection after ensure_user_in_db(user.id, ...): find_one, then
\* update_one $set message_count = old + 1, or insert_one with count 1.
ensure_user_in_db(us, u) ==
    IF \E r \in us : r.user_id = u
    THEN { IF r.user_id = u THEN [r EXCEPT !.message_count = @ + 1] ELSE r
           : r \in us }
    ELSE us \cup {[user_id |-> u, message_count |-> 1]}

\* is_user_in_channel as it would be if the except branches returned True.
\* The fail-closed statement of C13 must fail with it.
is_user_in_channel_fail_open(res) ==
    IF ~gating THEN TRUE
    ELSE res \in {"member", "administrator", "creator"} \cup TransportErrors

\* is_user_in_channel as it would be without lines 195-196: it asks
\* get_chat_member whether or not a channel is configured.  C32 must fail
\* with it.
is_user_in_channel_always_asks(res) ==
    res \in {"member", "administrator", "creator"}

\* is_user_in_channel: True without a lookup when no channel is configured;
\* otherwise True for the three member statuses, False for every other
\* status and for every exception of the lookup.
is_user_in_channel(res) ==
    IF ~gating THEN TRUE
    ELSE res \in {"member", "administrator", "creator"}

\* The gate as it would be without lines 582-586 of handle_message: nobody
\* is stopped.  C35 must fail with it.
gate_is_member_open(u, res) == TRUE

\* The gate at the head of start, protect and handle_message: the operator
\* is never looked up.
gate_is_member(u, res) ==
    IF u # ADMIN_USER_ID THEN is_user_in_channel(res) ELSE TRUE

gate_of(is_member) == IF is_member THEN "passed" ELSE "stopped"

\* users is_user_in_channel has looked up and reported as members
note_passed(ps, u, looked_up, is_member) ==
    IF looked_up /\ gating /\ is_member THEN ps \cup {u} ELSE ps

\* send_channel_verification(update, context, action): the join prompt, whose
\* second button has callback_data "check_<action>".
send_channel_verification(action) ==
    IF ~gating THEN NoReply
    ELSE [reply |-> "join_prompt", cb |-> <<"check">> \o action]

\* start: the function ends after the welcome branch; with arguments it
\* sends nothing and touches no collection but users.
main_start_reply(is_member, args) ==
    IF ~is_member THEN send_channel_verification(<<"start">>)
    ELSE IF args = <<>> THEN [reply |-> "welcome", cb |-> <<>>]
    ELSE NoReply

main_start(u, args, res, ok) ==
    /\ rev = "main"
    /\ last = Quiet
    /\ nevents < MaxEvents
    /\ LET is_member == gate_is_member(u, res)
       IN  /\ users' = ensure_user_in_db(users, u)
           /\ passed' = note_passed(passed, u, u # ADMIN_USER_ID, is_member)
           /\ last' = Looked(Handled("start", u, args,
                                     gate_of(is_member),
                                     Deliver(main_start_reply(is_member, args), ok),
                                     0, FALSE),
                              gating /\ u # ADMIN_USER_ID, res)
    /\ nevents' = nevents + 1
    /\ UNCHANGED <<rev, gating, links, captcha, next_id, purged, tasks,
                   released, rel_cnt, rel_code>>
    /\ UNCHANGED broadcast_vars

\* handle_verification_start_from_callback as it would be without its
\* delete_many and without the unique index on (user_id, encoded).  C30 must
\* fail with it.
handle_verification_start_no_delete(cs, id, user_id, encoded, code) ==
    Append(cs, [id |-> id, user_id |-> user_id, encoded |-> encoded,
                captcha_code |-> code, aged |-> FALSE])

\* handle_verification_start_from_callback: delete_many for the pair, then
\* insert_one of a new document with a fresh code (no lookup of the link,
\* no collision check), then the "Verify Now" button.
handle_verification_start_from_callback(cs, id, user_id, encoded, code) ==
    Append(delete_many(cs, user_id, encoded),
           [id |-> id, user_id |-> user_id, encoded |-> encoded,
            captcha_code |-> code, aged |-> FALSE])

\* The "check_" branch as it would be without line 363: it goes on whatever
\* is_user_in_channel returned.  C6 must fail with it.
check_proceeds_unchecked(is_member) == TRUE

\* callback_handler, "check_" branch, line 363: if is_member
check_proceeds(is_member) == is_member

\* handle_captcha_verification as it would be with a find_one by token
\* alone.  C37 must fail with it.
handle_captcha_verification_by_token(cs, user_id, encoded) ==
    LET S == { i \in 1..Len(cs) : cs[i].encoded = encoded }
    IN  IF S = {} THEN [reply |-> "no_pending", cb |-> <<>>]
        ELSE [reply |-> "code_shown", cb |-> cs[first_pos(S)].captcha_code]

\* handle_captcha_verification: shows the code stored for (user, token)
handle_captcha_verification(cs, user_id, encoded) ==
    IF find_captcha(cs, user_id, encoded) = NoDoc
    THEN [reply |-> "no_pending", cb |-> <<>>]
    ELSE [reply |-> "code_shown",
          cb |-> find_captcha(cs, user_id, encoded).captcha_code]

\* callback_handler: which branch a callback_data takes
callback_branch(data, is_member) ==
    IF startswith(data, <<"check">>)
    THEN IF check_proceeds(is_member)
         THEN IF startswith(Tail(data), <<"verify">>) THEN "mint"
              ELSE IF Tail(data) = <<"protect">> THEN "verified_protect"
              ELSE IF Tail(data) = <<"start">> THEN "verified_start"
              ELSE "verified"
         ELSE "still_not_member"
    ELSE IF startswith(data, <<"verify">>) THEN "reveal"
    ELSE IF startswith(data, <<"copy">>) THEN "copy"
    ELSE IF startswith(data, <<"share", "link">>) THEN "share"
    ELSE "ignored"

\* the token at the end of "check_verify_<t>", "verify_<t>", "copy_<t>", ...
encoded_of(data) == data[Len(data)]

callback_reply(branch, data, u) ==
    CASE branch = "mint" ->
            [reply |-> "verify_button", cb |-> <<"verify", encoded_of(data)>>]
      [] branch = "still_not_member" ->
            [reply |-> "still_not_member", cb |-> data]
      [] branch = "reveal" ->
            handle_captcha_verification(captcha, u, encoded_of(data))
      [] branch = "share" ->
            [reply |-> "share", cb |-> <<"copy", encoded_of(data)>>]
      [] OTHER -> [reply |-> branch, cb |-> <<>>]

\* callback_handler.  stored says whether captcha_collection.insert_one of
\* handle_verification_start_from_callback returned or raised (a fault of
\* the store): when it raises, delete_many has run, the exception leaves the
\* handler and the "Verify Now" button is not sent.
main_callback_handler(u, data, res, code, stored, ok) ==
    /\ rev = "main"
    /\ last = Quiet
    /\ nevents < MaxEvents
    /\ LET looked_up == startswith(data, <<"check">>)
           is_member == is_user_in_channel(res)
           branch    == callback_branch(data, is_member)
           minting   == branch = "mint"
           minted    == minting /\ stored
       IN  /\ captcha' = IF minted
                         THEN handle_verification_start_from_callback(
                                  captcha, next_id, u, encoded_of(data), code)
                         ELSE IF minting
                         THEN delete_many(captcha, u, encoded_of(data))
                         ELSE captcha
           /\ next_id' = IF minted THEN next_id + 1 ELSE next_id
           /\ rel_code' = IF minted THEN forget_release(rel_code, u)
                          ELSE rel_code
           /\ tasks' = IF minted THEN forget_later(tasks, u) ELSE tasks
           /\ passed' = note_passed(passed, u, looked_up, is_member)
           /\ last' = Inserted(
                          Looked(Handled("callback_handler", u, data,
                                     IF looked_up THEN gate_of(is_member)
                                     ELSE "passed",
                                     IF minting /\ ~stored
                                     THEN [reply |-> "error", cb |-> <<>>]
                                     ELSE Deliver(callback_reply(branch, data, u),
                                                  ok),
                                     IF minted THEN next_id ELSE 0, FALSE),
                                 gating /\ looked_up, res),
                          IF minting THEN 1 ELSE 0)
    /\ nevents' = nevents + 1
    /\ UNCHANGED <<rev, gating, links, users, purged, released, rel_cnt>>
    /\ UNCHANGED broadcast_vars

\* validate_telegram_link: re.match of the six patterns, each anchored at
\* both ends.  (Outside the alphabet above, "\d" also takes non-ASCII digits
\* and "$" also matches before a final newline; context.args holds no
\* whitespace.)
validate_telegram_link(link) ==
    /\ link.scheme = "https"
    /\ link.host \in {"t.me", "telegram.me"}
    /\ \/ /\ Len(link.path) = 2
          /\ link.path[1] = "joinchat"
          /\ link.path[2] # <<>> /\ all_in(link.path[2], WordDash)
          /\ all_in(link.query, QueryChars)
       \/ /\ Len(link.path) = 1
          /\ link.query = <<>>
          /\ Len(link.path[1]) >= 2
          /\ link.path[1][1] = 43
          /\ all_in(Tail(link.path[1]), WordDash)
       \/ /\ Len(link.path) = 1
          /\ link.query = <<>>
          /\ Len(link.path[1]) >= 5
          /\ all_in(link.path[1], Word)
       \/ /\ Len(link.path) = 2
          /\ link.path[1] = "i"
          /\ link.query = <<>>
          /\ link.path[2] # <<>> /\ all_in(link.path[2], WordDash)
       \/ /\ Len(link.path) = 2
          /\ link.path[1] = "c"
          /\ link.query = <<>>
          /\ link.path[2] # <<>> /\ all_in(link.path[2], Digits)

\* "•••••••••••••••••••••"
Bullets == Link("", "", <<<<8226>>>>, <<>>)

\* the last four characters of a code
last4(code) == SubSeq(code, Len(code) - 3, Len(code))

\* original_link.split("/")[-1]: the last segment with "?query" when present
last_part(link) ==
    IF link.query = <<>> THEN link.path[Len(link.path)]
    ELSE link.path[Len(link.path)] \o <<63>> \o link.query

\* The text as it would be without generate_obfuscated_link.  C12 must fail
\* with it.
generate_obfuscated_link_verbatim(original_link) == original_link

\* generate_obfuscated_link: what the texts show in place of the link.  The
\* substring tests pick the host t.me with the path joinchat/..., +... or
\* c/...; a branch whose inner test fails falls through to the bullets.
generate_obfuscated_link(original_link) ==
    IF original_link.host = "t.me" /\ Len(original_link.path) = 2
       /\ original_link.path[1] = "joinchat"
    THEN IF Len(last_part(original_link)) > 8
         THEN Link("https", "t.me",
                   <<"joinchat",
                     <<46, 46, 46>> \o last4(last_part(original_link))>>, <<>>)
         ELSE Bullets
    ELSE IF original_link.host = "t.me" /\ Len(original_link.path) = 1
            /\ original_link.path[1] # <<>> /\ original_link.path[1][1] = 43
    THEN IF Len(Tail(last_part(original_link))) > 8
         THEN Link("https", "t.me",
                   <<<<43, 46, 46, 46>> \o last4(last_part(original_link))>>,
                   <<>>)
         ELSE Bullets
    ELSE IF original_link.host = "t.me" /\ Len(original_link.path) = 2
            /\ original_link.path[1] = "c"
    THEN Link("https", "t.me", <<"c", <<8226, 8226, 8226, 8226, 8226, 8226, 8226>>>>,
              <<>>)
    ELSE Bullets

\* insert_one as it would be without the unique index of line 51.  C17 must
\* fail with it.
links_insert_one_unchecked(ls, doc) == ls \cup {doc}

\* links_collection.insert_one under the unique index on encoded: a
\* document whose encoded is taken raises DuplicateKeyError and is not stored.
links_insert_one(ls, doc) ==
    IF \E l \in ls : l.encoded = doc.encoded THEN ls ELSE ls \cup {doc}

\* The replies of protect as they would be without the test of line 519.
\* C16 must fail with it.
main_protect_reply_unvalidated(chat, args, encoded) ==
    IF chat # "private" THEN [reply |-> "use_private", cb |-> <<>>]
    ELSE IF args = <<>> THEN [reply |-> "usage", cb |-> <<>>]
    ELSE IF encoded \in link_tokens
         THEN [reply |-> "error_occurred", cb |-> <<>>]
    ELSE [reply |-> "protected", cb |-> <<"copy", encoded>>,
          text_link |-> generate_obfuscated_link(args[1]), url |-> NoLink]

\* protect after the gate: users, then the checks, then insert_one, whose
\* DuplicateKeyError (unique index on encoded) is caught and reported.
main_protect_reply(chat, args, encoded) ==
    IF chat # "private" THEN [reply |-> "use_private", cb |-> <<>>]
    ELSE IF args = <<>> THEN [reply |-> "usage", cb |-> <<>>]
    ELSE IF ~validate_telegram_link(args[1])
         THEN [reply |-> "invalid_link", cb |-> <<>>]
    ELSE IF encoded \in link_tokens
         THEN [reply |-> "error_occurred", cb |-> <<>>]
    ELSE [reply |-> "protected", cb |-> <<"copy", encoded>>,
          text_link |-> generate_obfuscated_link(args[1]), url |-> NoLink]

\* What /protect gets across.  The reply of the success branch is awaited
\* inside the try block: when it raises, the except branch sends the failure
\* message, which is delivered (again) or raises in its turn and leaves the
\* handler.  Every other reply is one send.
protect_delivery(r, ok, again) ==
    IF r.reply = "protected" /\ ~ok
    THEN Deliver([reply |-> "error_occurred", cb |-> <<>>], again)
    ELSE Deliver(r, ok)

main_protect(u, chat, args, res, encoded, ok, again) ==
    /\ rev = "main"
    /\ last = Quiet
    /\ nevents < MaxEvents
    /\ encoded \notin purged
    /\ LET is_member == gate_is_member(u, res)
           r == IF ~is_member THEN send_channel_verification(<<"protect">>)
                ELSE main_protect_reply(chat, args, encoded)
       IN  /\ users' = IF is_member THEN ensure_user_in_db(users, u) ELSE users
           /\ links' = IF r.reply \in {"protected", "error_occurred"}
                       THEN links_insert_one(links,
                                [encoded |-> encoded, group_link |-> args[1],
                                 created_by |-> u, verification_count |-> 0])
                       ELSE links
           /\ passed' = note_passed(passed, u, u # ADMIN_USER_ID, is_member)
           /\ last' = Inserted(
                          Looked(Handled("protect", u, args, gate_of(is_member),
                                         protect_delivery(r, ok, again),
                                         0, FALSE),
                                 gating /\ u # ADMIN_USER_ID, res),
                          IF r.reply \in {"protected", "error_occurred"}
                          THEN 1 ELSE 0)
    /\ nevents' = nevents + 1
    /\ UNCHANGED <<rev, gating, captcha, next_id, purged, tasks, released,
                   rel_cnt, rel_code>>
    /\ UNCHANGED broadcast_vars

\* message_branch as it would be without the chat type test of line 590.
\* C38 must fail with it.
message_branch_any_chat(chat, text, captcha_data, link_data) ==
    IF ~(Len(text) = CodeLength /\ isdigit(text)) THEN "none"
    ELSE IF captcha_data = NoDoc THEN "none"
    ELSE IF text # captcha_data.captcha_code THEN "incorrect"
    ELSE IF link_data = NoDoc THEN "expired"
    ELSE "release"

\* message_branch as it would be without the len(message_text) == 5 test of
\* line 595.  C15 must fail with it.
message_branch_any_length(chat, text, captcha_data, link_data) ==
    IF chat # "private" THEN "none"
    ELSE IF ~isdigit(text) THEN "none"
    ELSE IF captcha_data = NoDoc THEN "none"
    ELSE IF text # captcha_data.captcha_code THEN "incorrect"
    ELSE IF link_data = NoDoc THEN "expired"
    ELSE "release"

\* handle_message, lines 590-645, up to its reply_text: which reply the
\* handler is about to await.
message_branch(chat, text, captcha_data, link_data) ==
    IF chat # "private" THEN "none"
    ELSE IF ~(Len(text) = CodeLength /\ isdigit(text)) THEN "none"
    ELSE IF captcha_data = NoDoc THEN "none"
    ELSE IF text # captcha_data.captcha_code THEN "incorrect"
    ELSE IF link_data = NoDoc THEN "expired"
    ELSE "release"

\* handle_message from the gate to the await of its reply: the gate, then
\* ensure_user_in_db, find_one by user id alone, the comparison, the lookup
\* of the link.  The task then waits in slot t for reply_text to return.
main_handle_message(t, u, chat, text, res, ok) ==
    /\ rev = "main"
    /\ last = Quiet
    /\ nevents < MaxEvents
    /\ idle_slots # {}
    /\ t = first_pos(idle_slots)
    /\ LET is_member    == gate_is_member(u, res)
           captcha_data == find_captcha_by_user(captcha, u)
           link_data    == IF captcha_data = NoDoc THEN NoDoc
                           ELSE find_link(links, captcha_data.encoded)
           branch == IF is_member
                     THEN message_branch(chat, text, captcha_data, link_data)
                     ELSE "gate"
           later == rel_code[u] = text
       IN  /\ users' = IF is_member THEN ensure_user_in_db(users, u) ELSE users
           /\ passed' = note_passed(passed, u, u # ADMIN_USER_ID, is_member)
           /\ IF branch \in {"release", "expired", "incorrect"}
              THEN /\ tasks' = [tasks EXCEPT ![t] =
                                  [pc |-> "reply",
                                   user |-> u, text |-> text,
                                   branch |-> branch,
                                   captcha_data |-> captcha_data,
                                   link_data |-> link_data,
                                   later |-> later,
                                   lookup |-> IF gating /\ u # ADMIN_USER_ID
                                              THEN res ELSE "none",
                                   chat |-> chat]]
                   /\ last' = last
              ELSE /\ tasks' = tasks
                   /\ last' = InChat(Looked(
                                  Handled("handle_message", u, text,
                                      gate_of(is_member),
                                      Deliver(IF branch = "gate"
                                              THEN send_channel_verification(<<"message">>)
                                              ELSE NoReply, ok),
                                      0, later /\ is_member /\ chat = "private"),
                                  gating /\ u # ADMIN_USER_ID, res), chat)
    /\ nevents' = nevents + 1
    /\ UNCHANGED <<rev, gating, links, captcha, next_id, purged, released,
                   rel_cnt, rel_code>>
    /\ UNCHANGED broadcast_vars

\* captcha_collection after the reply of a handle_message task was sent:
\* delete_one by _id after a release, delete_one by user id otherwise.
captcha_after_reply(cs, task) ==
    IF task.branch = "release"
    THEN delete_one_by_id(cs, task.captcha_data.id)
    ELSE delete_one_by_user(cs, task.user)

\* The $inc as it would be outside the release branch: it runs after every
\* reply.  C10 must fail with it.
links_after_reply_always(ls, task) ==
    inc_verification_count(ls, task.captcha_data.encoded)

\* links_collection after the reply: the $inc follows a release only.
links_after_reply(ls, task) ==
    IF task.branch = "release"
    THEN inc_verification_count(ls, task.captcha_data.encoded)
    ELSE ls

\* The reply handle_message awaits: the release shows the obfuscated link in
\* its text and carries the link as the URL of its first button.
message_reply(task) ==
    IF task.branch = "release"
    THEN [reply |-> "release",
          cb |-> <<"share", "link", task.captcha_data.encoded>>,
          text_link |-> generate_obfuscated_link(task.link_data.group_link),
          url |-> task.link_data.group_link]
    ELSE [reply |-> task.branch, cb |-> <<>>]

\* The statements below the await as they would be if they stood above it:
\* they run whether or not the send returns.  C36 must fail with it.
below_await_regardless(ok, after, before) == after

\* A collection after the statements that stand below an await: they run
\* when the awaited send returned, and are skipped when it raised.
below_await(ok, after, before) == IF ok THEN after ELSE before

\* handle_message after its reply_text returned (ok) or raised (~ok): when it
\* raised, the exception leaves the handler and nothing below the await runs.
main_handle_message_reply(t, ok) ==
    /\ rev = "main"
    /\ last = Quiet
    /\ tasks[t].pc = "reply"
    /\ LET task == tasks[t]
           rel  == ok /\ task.branch = "release"
       IN  /\ captcha' = below_await(ok, captcha_after_reply(captcha, task),
                                      captcha)
           /\ links' = below_await(ok, links_after_reply(links, task), links)
           /\ released' = IF rel
                          THEN [released EXCEPT ![task.captcha_data.encoded] = @ + 1]
                          ELSE released
           /\ rel_cnt' = IF rel
                         THEN [rel_cnt EXCEPT ![task.captcha_data.id] = @ + 1]
                         ELSE rel_cnt
           /\ rel_code' = IF rel THEN [rel_code EXCEPT ![task.user] = task.text]
                          ELSE rel_code
           /\ last' = InChat(Looked(
                                  Handled("handle_message", task.user, task.text,
                                          "passed",
                                          Deliver(message_reply(task), ok),
                                          task.captcha_data.id, task.later),
                                  task.lookup # "none", task.lookup),
                              task.chat)
    /\ tasks' = [tasks EXCEPT ![t] = Idle]
    /\ UNCHANGED <<rev, gating, users, next_id, purged, nevents, passed>>
    /\ UNCHANGED broadcast_vars

\* -------------------------------------------------------- the TTL indexes
\* Time is kept per captcha document: aged says that created_at
\* (datetime.utcnow() at the insert) lies more than 300 seconds back.  The
\* handlers never read created_at.  The server's TTL monitor removes aged
\* documents when it next runs, so an aged document stays readable until
\* then.
captcha_ages(i) ==
    /\ last = Quiet
    /\ i \in 1..Len(captcha)
    /\ ~captcha[i].aged
    /\ captcha' = [captcha EXCEPT ![i].aged = TRUE]
    /\ UNCHANGED <<rev, gating, links, users, next_id, purged, tasks, nevents,
                   last, released, rel_cnt, rel_code, passed>>
    /\ UNCHANGED broadcast_vars

\* captcha_collection.create_index("created_at", expireAfterSeconds=300)
ttl_expire_captcha(i) ==
    /\ last = Quiet
    /\ i \in 1..Len(captcha)
    /\ captcha[i].aged
    /\ captcha' = filter_out(captcha, {i}, 1)
    /\ UNCHANGED <<rev, gating, links, users, next_id, purged, tasks, nevents,
                   last, released, rel_cnt, rel_code, passed>>
    /\ UNCHANGED broadcast_vars

\* links_collection.create_index("created_at", expireAfterSeconds=2592000)
ttl_expire_link(l) ==
    /\ last = Quiet
    /\ l \in links
    /\ links' = links \ {l}
    /\ purged' = purged \cup {l.encoded}
    /\ UNCHANGED <<rev, gating, captcha, users, next_id, tasks, nevents, last,
                   released, rel_cnt, rel_code, passed>>
    /\ UNCHANGED broadcast_vars

\* ------------------------------------- deepseek_python_20251206_9072e4.py
\* ensure_user_in_db is one update_one(..., upsert=True) whose update document
\* names last_active under $setOnInsert and $set, and message_count under
\* $setOnInsert and $inc.  MongoDB rejects an update in which two operators
\* address the same path (WriteError "would create a conflict"), whether or
\* not the upsert inserts; the function has no try/except, so the error
\* leaves the handler that called it.
SetOnInsertPaths == {"user_id", "username", "first_name", "last_name",
                     "last_active", "joined_at", "message_count"}
SetPaths == {"last_active"}
IncPaths == {"message_count"}

deepseek_ensure_user_in_db_raises ==
    \/ SetOnInsertPaths \cap SetPaths # {}
    \/ SetOnInsertPaths \cap IncPaths # {}
    \/ SetPaths \cap IncPaths # {}

\* users_collection after the upsert, were it accepted
deepseek_ensure_user_in_db(us, u) ==
    IF deepseek_ensure_user_in_db_raises THEN us
    ELSE ensure_user_in_db(us, u)

Raised == [reply |-> "error", cb |-> <<>>]

\* captcha_collection.insert_one under the unique index on user_id alone
deepseek_insert_raises(cs, user_id) == positions(cs, user_id) # {}

\* start, lines 98-172: the reply after ensure_user_in_db
deepseek_start_reply(u, args, code) ==
    IF args = <<>> THEN [reply |-> "welcome", cb |-> <<>>]
    ELSE IF ~startswith(args, <<"verify">>) THEN NoReply
    ELSE IF find_link(links, encoded_of(args)) = NoDoc
         THEN [reply |-> "link_not_found", cb |-> <<>>]
    ELSE IF find_captcha(captcha, u, encoded_of(args)) # NoDoc
         THEN [reply |-> "code_shown",
               cb |-> find_captcha(captcha, u, encoded_of(args)).captcha_code]
    ELSE IF deepseek_insert_raises(captcha, u)
         THEN [reply |-> "already_pending", cb |-> <<>>]
    ELSE [reply |-> "code_minted", cb |-> code]

deepseek_start(u, args, code, ok) ==
    /\ rev = "deepseek"
    /\ last = Quiet
    /\ nevents < MaxEvents
    /\ LET raised == deepseek_ensure_user_in_db_raises
           r      == IF raised THEN Raised
                     ELSE deepseek_start_reply(u, args, code)
           minted == r.reply = "code_minted"
       IN  /\ users' = deepseek_ensure_user_in_db(users, u)
           /\ captcha' = IF minted
                         THEN Append(captcha,
                                     [id |-> next_id, user_id |-> u,
                                      encoded |-> encoded_of(args),
                                      captcha_code |-> code, aged |-> FALSE])
                         ELSE captcha
           /\ next_id' = IF minted THEN next_id + 1 ELSE next_id
           /\ rel_code' = IF minted THEN forget_release(rel_code, u)
                          ELSE rel_code
           /\ last' = Handled("start", u, args, "passed",
                              Deliver(r, ok), IF minted THEN next_id ELSE 0,
                              FALSE)
    /\ nevents' = nevents + 1
    /\ UNCHANGED <<rev, gating, links, purged, tasks, released, rel_cnt,
                   passed>>
    /\ UNCHANGED broadcast_vars

\* protect, lines 199-200: group_link.startswith("https://t.me/") or
\* group_link.startswith("https://telegram.me/")
deepseek_valid_link(link) ==
    link.scheme = "https" /\ link.host \in {"t.me", "telegram.me"}

\* protect, lines 174-245: the reply after ensure_user_in_db
deepseek_protect_reply(chat, args, encoded) ==
    IF chat # "private" THEN [reply |-> "use_private", cb |-> <<>>]
    ELSE IF args = <<>> THEN [reply |-> "usage", cb |-> <<>>]
    ELSE IF ~deepseek_valid_link(args[1])
         THEN [reply |-> "invalid_link", cb |-> <<>>]
    ELSE IF encoded \in link_tokens
         THEN [reply |-> "error_occurred", cb |-> <<>>]
    ELSE [reply |-> "protected", cb |-> <<"copy", encoded>>,
          text_link |-> args[1], url |-> NoLink]

deepseek_protect(u, chat, args, encoded, ok) ==
    /\ rev = "deepseek"
    /\ last = Quiet
    /\ nevents < MaxEvents
    /\ encoded \notin purged
    /\ LET raised == deepseek_ensure_user_in_db_raises
           r      == IF raised THEN Raised
                     ELSE deepseek_protect_reply(chat, args, encoded)
       IN  /\ users' = deepseek_ensure_user_in_db(users, u)
           /\ links' = IF r.reply \in {"protected", "error_occurred"}
                       THEN links_insert_one(links,
                                [encoded |-> encoded, group_link |-> args[1],
                                 created_by |-> u, verification_count |-> 0])
                       ELSE links
           /\ last' = Inserted(Handled("protect", u, args, "passed",
                                       Deliver(r, ok), 0, FALSE),
                               IF r.reply \in {"protected", "error_occurred"}
                               THEN 1 ELSE 0)
    /\ nevents' = nevents + 1
    /\ UNCHANGED <<rev, gating, captcha, next_id, purged, tasks, released,
                   rel_cnt, rel_code, passed>>
    /\ UNCHANGED broadcast_vars

\* handle_message, lines 247-301: the reply it sends
deepseek_message_branch(chat, text, captcha_data, link_data) ==
    IF chat # "private" THEN "none"
    ELSE IF ~(Len(text) = CodeLength /\ isdigit(text)) THEN "none"
    ELSE IF captcha_data = NoDoc THEN "no_pending"
    ELSE IF text # captcha_data.captcha_code THEN "incorrect"
    ELSE IF link_data = NoDoc THEN "expired"
    ELSE "release"

\* The reply of handle_message: the release (lines 277-282) has the link in
\* its text and no button.
deepseek_message_reply(branch, link_data) ==
    IF branch = "release"
    THEN [reply |-> "release", cb |-> <<>>,
          text_link |-> link_data.group_link, url |-> NoLink]
    ELSE [reply |-> branch, cb |-> <<>>]

\* Updates are handled one at a time in this revision, so the handler runs
\* from its first line to its last in one step.  Nothing is deleted after
\* an incorrect code.
deepseek_handle_message(u, chat, text, ok) ==
    /\ rev = "deepseek"
    /\ last = Quiet
    /\ nevents < MaxEvents
    /\ LET raised == deepseek_ensure_user_in_db_raises
           captcha_data == find_captcha_by_user(captcha, u)
           link_data    == IF captcha_data = NoDoc THEN NoDoc
                           ELSE find_link(links, captcha_data.encoded)
           branch == IF raised THEN "error"
                     ELSE deepseek_message_branch(chat, text, captcha_data,
                                                  link_data)
           rel == ok /\ branch = "release"
       IN  /\ users' = deepseek_ensure_user_in_db(users, u)
           /\ captcha' = IF ok /\ branch \in {"release", "expired"}
                         THEN delete_one_by_user(captcha, u)
                         ELSE captcha
           /\ links' = IF rel
                       THEN inc_verification_count(links, captcha_data.encoded)
                       ELSE links
           /\ released' = IF rel
                          THEN [released EXCEPT ![captcha_data.encoded] = @ + 1]
                          ELSE released
           /\ rel_cnt' = IF rel
                         THEN [rel_cnt EXCEPT ![captcha_data.id] = @ + 1]
                         ELSE rel_cnt
           /\ rel_code' = IF rel THEN [rel_code EXCEPT ![u] = text]
                          ELSE rel_code
           /\ last' = InChat(
                          Handled("handle_message", u, text, "passed",
                              Deliver(deepseek_message_reply(branch, link_data), ok),
                              captcha_data.id,
                              ~raised /\ chat = "private" /\ rel_code[u] = text),
                          chat)
    /\ nevents' = nevents + 1
    /\ UNCHANGED <<rev, gating, next_id, purged, tasks, passed>>
    /\ UNCHANGED broadcast_vars

\* callback_handler, lines 711-780: "copy_<token>" shows the protected link
\* when the link exists; it never calls ensure_user_in_db.
deepseek_callback_reply(data) ==
    IF startswith(data, <<"copy">>) /\ find_link(links, encoded_of(data)) # NoDoc
    THEN [reply |-> "copy", cb |-> <<>>]
    ELSE NoReply

deepseek_callback_handler(u, data, ok) ==
    /\ rev = "deepseek"
    /\ last = Quiet
    /\ nevents < MaxEvents
    /\ last' = Handled("callback_handler", u, data, "passed",
                       Deliver(deepseek_callback_reply(data), ok), 0, FALSE)
    /\ nevents' = nevents + 1
    /\ UNCHANGED <<rev, gating, links, captcha, users, next_id, purged, tasks,
                   released, rel_cnt, rel_code, passed>>
    /\ UNCHANGED broadcast_vars

\* process_update (main.py lines 1055-1060) returns its Response once the
\* handler is through; the dispatcher of run_webhook likewise moves on.  last
\* shows an update's outcome until then.
process_update_returns ==
    /\ last # Quiet
    /\ last' = Quiet
    /\ UNCHANGED <<rev, gating, links, captcha, users, next_id, purged, tasks,
                   nevents, released, rel_cnt, rel_code, passed>>
    /\ UNCHANGED broadcast_vars

\* -------------------------------------------------------------- broadcast
\* /broadcast as the operator can send it: in reply to a message, with text
\* after the command, or bare.
BroadcastKinds == {"replied", "text", "bare"}

\* What awaiting one send to a recipient gives: delivered, or one of the
\* exceptions of the transport, named by its message.
SendResults == {"ok", "bot was blocked", "chat not found", "timed out"}

\* The test of the except branch as it would be if every exception removed
\* the recipient.  C21 must fail with it.
removes_user_always(result) == TRUE

\* The test of the except branch on str(e).lower(): "blocked" or "chat not
\* found" in main.py, "bot was blocked" or "chat not found" in the deepseek
\* revision.
removes_user(result) == result \in {"bot was blocked", "chat not found"}

\* str(user.id) != ADMIN_USER_ID, as it would be if nobody were turned away.
\* C19 must fail with it.
is_admin_anyone(u) == TRUE

\* The operator test at the head of broadcast.
is_admin(u) == u = ADMIN_USER_ID

\* list(users_collection.find({}, {"user_id": 1})): the user ids of the
\* directory, in whatever order the server returns them.
find_all(us) ==
    LET ids == { d.user_id : d \in us }
    IN  { q \in [1..Cardinality(ids) -> ids] :
            \A i, j \in 1..Cardinality(ids) : q[i] = q[j] => i = j }

users_delete_one(us, user_id) == { d \in us : d.user_id # user_id }

\* The branch broadcast would take without the total_users == 0 test of
\* broadcast_text and broadcast_replied.  C39 must fail with it.
broadcast_branch_untested(u, kind, us) ==
    IF ~is_admin(u) THEN "admins_only"
    ELSE IF kind = "bare" THEN "usage"
    ELSE "status"

\* The branch broadcast takes.
broadcast_branch(u, kind, us) ==
    IF ~is_admin(u) THEN "admins_only"
    ELSE IF kind = "bare" THEN "usage"
    ELSE IF us = {} THEN "no_users"
    ELSE "status"

\* deepseek: broadcasts_collection.insert_one raises DuplicateKeyError on a
\* broadcast_id that is taken (unique index); main.py writes no record.
broadcast_insert_raises(broadcast_id) ==
    rev = "deepseek" /\ \E b \in broadcasts : b.broadcast_id = broadcast_id

broadcast_data(broadcast_id, total_users) ==
    [broadcast_id |-> broadcast_id, total_users |-> total_users,
     sent_count |-> 0, failed_count |-> 0, status |-> "sending"]

\* The dispatcher of run_webhook hands over one update at a time: the
\* deepseek revision starts no handler while a broadcast is under way.
\* The /webhook route of main.py awaits process_update per request, so
\* its handlers interleave at their awaits.
may_dispatch ==
    rev = "deepseek" => \A r \in RunIds : runs[r].pc = "idle"

\* broadcast, up to the status message that precedes the loop: the operator
\* test, the choice between broadcast_replied and broadcast_text, the
\* snapshot of the directory, the record of the deepseek revision and the
\* first reply_text.  An exception of insert_one or of the reply leaves the
\* handler before the loop.  r is the first slot of runs that is free.
broadcast(r, u, kind, all_users, broadcast_id, ok) ==
    /\ last = Quiet
    /\ nevents < MaxEvents
    /\ may_dispatch
    /\ runs[r].pc = "idle"
    /\ \A q \in RunIds : q < r => runs[q].pc # "idle"
    /\ all_users \in find_all(users)
    /\ LET branch  == broadcast_branch(u, kind, users)
           raises  == branch = "status" /\ broadcast_insert_raises(broadcast_id)
           records == branch = "status" /\ rev = "deepseek" /\ ~raises
           starts  == branch = "status" /\ ~raises /\ ok
       IN  /\ broadcasts' =
                 IF records
                 THEN broadcasts \cup
                          {broadcast_data(broadcast_id, Len(all_users))}
                 ELSE broadcasts
           /\ runs' =
                 IF starts
                 THEN [runs EXCEPT ![r] =
                          [NoRun EXCEPT !.pc = "loop", !.kind = kind,
                                        !.all_users = all_users,
                                        !.total_users = Len(all_users),
                                        !.broadcast_id =
                                            IF rev = "deepseek"
                                            THEN broadcast_id ELSE 0]]
                 ELSE runs
           /\ last' = Handled("broadcast", u, <<kind>>, "none",
                              IF raises THEN [reply |-> "error", cb |-> <<>>]
                              ELSE Deliver([reply |-> branch, cb |-> <<>>], ok),
                              0, FALSE)
    /\ nevents' = nevents + 1
    /\ UNCHANGED <<rev, gating, links, captcha, users, next_id, purged, tasks,
                   released, rel_cnt, rel_code, passed>>

\* The counters after one pass of the loop, as they would be if the except
\* branch did not count.  C20 must fail with it.
count_attempt_success_only(run, result) ==
    [run EXCEPT !.success_count = IF result = "ok" THEN @ + 1 ELSE @,
                !.results = Append(@, result)]

\* The counters after one pass of the loop: success_count += 1 after the
\* awaited send returned, failed_count += 1 in the except branch.
count_attempt(run, result) ==
    [run EXCEPT !.success_count = IF result = "ok" THEN @ + 1 ELSE @,
                !.failed_count = IF result = "ok" THEN @ ELSE @ + 1,
                !.results = Append(@, result)]

\* The recipient of a pass, as it would be if the loop asked the directory
\* again: a recipient who is gone is passed over (0).  C22 must fail with it.
loop_target_live(run, us) ==
    LET user_id == run.all_users[Len(run.results) + 1]
    IN  IF \E d \in us : d.user_id = user_id THEN user_id ELSE 0

\* for user_data in all_users: the recipient of the next pass
loop_target(run, us) == run.all_users[Len(run.results) + 1]

\* The status edit inside the loop: in the try block, after
\* success_count += 1, when the sum of the counters is a multiple of 10.
status_edit_due(run, result) ==
    result = "ok" /\ (run.success_count + run.failed_count) % StatusEvery = 0

\* await asyncio.sleep(0.1): the last statement of the try block
sleeps_after(result) == result = "ok"

\* runs after a pass of run r, as it would be if the counters were shared by
\* the coroutines.  C26 must fail with it.
runs_after_shared(rs, r, run) ==
    [q \in RunIds |->
        IF q = r THEN run
        ELSE IF rs[q].pc = "idle" THEN rs[q]
        ELSE [rs[q] EXCEPT !.success_count = run.success_count,
                           !.failed_count = run.failed_count]]

\* success_count, failed_count and all_users are locals of the coroutine
runs_after(rs, r, run) == [rs EXCEPT ![r] = run]

\* One pass of the for loop of broadcast_text or broadcast_replied over the
\* next recipient of all_users: the awaited send, the counter, the status
\* edit (whose exceptions are dropped) and the sleep after a success, the
\* counter and the delete_one of a blocked or unknown recipient after an
\* exception.
broadcast_send(r, result) ==
    /\ last = Quiet
    /\ runs[r].pc = "loop"
    /\ LET run     == runs[r]
           user_id == loop_target(run, users)
           counted == count_attempt(run, result)
           after   == [counted EXCEPT
                          !.sent_to = Append(@, user_id),
                          !.slept = Append(@, sleeps_after(result)),
                          !.edits = IF status_edit_due(counted, result)
                                    THEN Append(@, counted.success_count
                                                    + counted.failed_count)
                                    ELSE @,
                          !.pc = IF Len(counted.results) = run.total_users
                                 THEN "final" ELSE "loop"]
       IN  /\ runs' = runs_after(runs, r, after)
           /\ users' = IF result # "ok" /\ removes_user(result)
                       THEN users_delete_one(users, user_id)
                       ELSE users
    /\ UNCHANGED <<rev, gating, links, captcha, next_id, purged, tasks,
                   nevents, last, released, rel_cnt, rel_code, passed,
                   broadcasts>>

\* deepseek: broadcasts_collection.update_one after the closing edit_text
broadcast_completed(bs, run) ==
    { IF b.broadcast_id = run.broadcast_id
      THEN [b EXCEPT !.sent_count = run.success_count,
                     !.failed_count = run.failed_count,
                     !.status = "completed"]
      ELSE b : b \in bs }

\* final_text: Total Users, Success and Failed as the summary shows them
final_text(run) == <<run.total_users, run.success_count, run.failed_count>>

\* The end of a run: final_text goes out by status_msg.edit_text; the
\* deepseek revision then completes its record.  An exception of the edit
\* leaves the handler at once.  last shows the summary with its numbers.
broadcast_final(r, ok) ==
    /\ last = Quiet
    /\ runs[r].pc = "final"
    /\ runs' = [runs EXCEPT ![r] = NoRun]
    /\ broadcasts' = IF rev = "deepseek" /\ ok
                     THEN broadcast_completed(broadcasts, runs[r])
                     ELSE broadcasts
    /\ last' = Handled("broadcast", ADMIN_USER_ID, final_text(runs[r]),
                       "none",
                       Deliver([reply |-> "summary", cb |-> <<>>], ok),
                       0, FALSE)
    /\ UNCHANGED <<rev, gating, links, captcha, users, next_id, purged, tasks,
                   nevents, released, rel_cnt, rel_code, passed>>

\* ------------------------------------------------------- the specification
\* The results get_chat_member can give a handler: the lookup is not made
\* when no channel is configured, nor for the operator where the handler
\* exempts the operator.
Lookups(exempt) ==
    IF ~gating \/ exempt THEN {"member"} ELSE MemberResults

\* What the send of the except branch of /protect can do: it is reached
\* after a failed reply only, in a private chat and with a link given.
SecondSends(chat, args, ok) ==
    IF ok \/ chat # "private" \/ args = <<>> THEN {FALSE} ELSE BOOLEAN

\* Every handler starts when process_update has returned from the update
\* before (last = Quiet) and belongs to one revision; Next says so before it
\* draws the handler's inputs.
Next ==
    \/ /\ rev = "main" /\ last = Quiet
       /\ \E u \in Users, args \in StartArgs, ok \in BOOLEAN :
             \E res \in Lookups(u = ADMIN_USER_ID) :
                 main_start(u, args, res, ok)
    \/ /\ rev = "main" /\ last = Quiet
       /\ \E u \in Users, chat \in ChatTypes, args \in ProtectArgs,
             encoded \in Tokens, ok \in BOOLEAN :
             \E res \in Lookups(u = ADMIN_USER_ID),
                again \in SecondSends(chat, args, ok) :
                 main_protect(u, chat, args, res, encoded, ok, again)
    \/ /\ rev = "main" /\ last = Quiet
       /\ \E u \in Users, data \in CallbackData, code \in Codes,
             ok \in BOOLEAN :
             \E res \in Lookups(~startswith(data, <<"check">>)) :
                 main_callback_handler(u, data, res, code, TRUE, ok)
    \/ /\ rev = "main" /\ last = Quiet
       /\ \E t \in TaskIds, u \in Users, chat \in ChatTypes, text \in Texts,
             ok \in BOOLEAN :
             \E res \in Lookups(u = ADMIN_USER_ID) :
                 main_handle_message(t, u, chat, text, res, ok)
    \/ \E t \in TaskIds, ok \in BOOLEAN : main_handle_message_reply(t, ok)
    \/ \E i \in 1..MaxEvents : captcha_ages(i)
    \/ \E i \in 1..MaxEvents : ttl_expire_captcha(i)
    \/ \E l \in links : ttl_expire_link(l)
    \/ /\ rev = "deepseek" /\ last = Quiet
       /\ \E u \in Users, args \in StartArgs, code \in Codes,
             ok \in BOOLEAN :
             deepseek_start(u, args, code, ok)
    \/ /\ rev = "deepseek" /\ last = Quiet
       /\ \E u \in Users, chat \in ChatTypes, args \in ProtectArgs,
             encoded \in Tokens, ok \in BOOLEAN :
             deepseek_protect(u, chat, args, encoded, ok)
    \/ /\ rev = "deepseek" /\ last = Quiet
       /\ \E u \in Users, chat \in ChatTypes, text \in Texts,
             ok \in BOOLEAN :
             deepseek_handle_message(u, chat, text, ok)
    \/ /\ rev = "deepseek" /\ last = Quiet
       /\ \E u \in Users, data \in CallbackData, ok \in BOOLEAN :
             deepseek_callback_handler(u, data, ok)
    \/ process_update_returns

Spec == Init /\ [][Next]_vars

\* The link pipeline on its own: /protect with every link shape, the
\* verification of the stored links and their release, with no channel
\* configured and every message delivered but the reply of /protect.
LinkInit == Init /\ ~gating

LinkNext ==
    \/ /\ last = Quiet
       /\ \E u \in Users, g \in LinkShapes, encoded \in Tokens, ok \in BOOLEAN :
             main_protect(u, "private", <<g>>, "member", encoded, ok, FALSE)
    \/ /\ last = Quiet
       /\ \E u \in Users, tk \in Tokens, code \in Codes :
             main_callback_handler(u, <<"check", "verify", tk>>, "member", code,
                                   TRUE, TRUE)
    \/ /\ last = Quiet
       /\ \E t \in TaskIds, u \in Users, text \in Codes :
             main_handle_message(t, u, "private", text, "member", TRUE)
    \/ /\ last = Quiet
       /\ \E t \in TaskIds : main_handle_message_reply(t, TRUE)
    \/ /\ last = Quiet
       /\ \E u \in Users, g \in LinkShapes, encoded \in Tokens, ok \in BOOLEAN :
             deepseek_protect(u, "private", <<g>>, encoded, ok)
    \/ /\ last = Quiet
       /\ \E u \in Users, tk \in Tokens, code \in Codes :
             deepseek_start(u, <<"verify", tk>>, code, TRUE)
    \/ /\ last = Quiet
       /\ \E u \in Users, text \in Codes :
             deepseek_handle_message(u, "private", text, TRUE)
    \/ process_update_returns

LinkSpec == LinkInit /\ [][LinkNext]_vars

\* The broadcast engine with the registrations of main.py around it.  The
\* directory starts as the database holds it when the process comes up: any
\* set of recipients registered before.
Directories ==
    { { [user_id |-> u, message_count |-> 1] : u \in S } :
        S \in SUBSET Recipients }

BroadcastInit ==
    /\ rev \in {"main", "deepseek"}
    /\ gating = FALSE
    /\ links = {}
    /\ captcha = <<>>
    /\ users \in Directories
    /\ next_id = 1
    /\ purged = {}
    /\ tasks = [t \in TaskIds |-> Idle]
    /\ nevents = 0
    /\ last = Quiet
    /\ released = [tk \in Tokens |-> 0]
    /\ rel_cnt = [i \in 1..MaxEvents |-> 0]
    /\ rel_code = [u \in Users |-> <<>>]
    /\ passed = {}
    /\ runs = [r \in RunIds |-> NoRun]
    /\ broadcasts = {}

BroadcastNext ==
    \/ /\ last = Quiet
       /\ \E r \in RunIds, u \in Users, kind \in BroadcastKinds,
             broadcast_id \in Tokens, ok \in BOOLEAN :
             \E all_users \in find_all(users) :
                 broadcast(r, u, kind, all_users, broadcast_id, ok)
    \/ /\ last = Quiet
       /\ \E r \in RunIds, result \in SendResults : broadcast_send(r, result)
    \/ /\ last = Quiet
       /\ \E r \in RunIds, ok \in BOOLEAN : broadcast_final(r, ok)
    \/ /\ last = Quiet
       /\ \E u \in Users : main_start(u, <<>>, "member", TRUE)
    \/ process_update_returns

BroadcastSpec == BroadcastInit /\ [][BroadcastNext]_vars

\* One run at a time over a directory of StatusEvery + 1 recipients, with
\* sends that return or time out: the runs long enough for the status edit
\* inside the loop.
LongDirectory ==
    { [user_id |-> u, message_count |-> 1] : u \in 1..(StatusEvery + 1) }

StatusInit ==
    /\ rev \in {"main", "deepseek"}
    /\ gating = FALSE
    /\ links = {}
    /\ captcha = <<>>
    /\ users = LongDirectory
    /\ next_id = 1
    /\ purged = {}
    /\ tasks = [t \in TaskIds |-> Idle]
    /\ nevents = 0
    /\ last = Quiet
    /\ released = [tk \in Tokens |-> 0]
    /\ rel_cnt = [i \in 1..MaxEvents |-> 0]
    /\ rel_code = [u \in Users |-> <<>>]
    /\ passed = {}
    /\ runs = [r \in RunIds |-> NoRun]
    /\ broadcasts = {}

StatusNext ==
    \/ /\ last = Quiet
       /\ \E kind \in {"replied", "text"}, broadcast_id \in Tokens,
             ok \in BOOLEAN :
             broadcast(1, ADMIN_USER_ID, kind,
                       [i \in 1..Cardinality(users) |-> i], broadcast_id, ok)
    \/ /\ last = Quiet
       /\ \E result \in {"ok", "timed out"} : broadcast_send(1, result)
    \/ /\ last = Quiet
       /\ \E ok \in BOOLEAN : broadcast_final(1, ok)
    \/ process_update_returns

StatusSpec == StatusInit /\ [][StatusNext]_vars

\* main.py with a store that can fail on the insert of a Challenge.
StoreFaultInit == Init /\ rev = "main"

StoreFaultNext ==
    \/ /\ last = Quiet
       /\ \E u \in Users, data \in CallbackData, code \in Codes,
             stored \in BOOLEAN, ok \in BOOLEAN :
             \E res \in Lookups(~startswith(data, <<"check">>)) :
                 main_callback_handler(u, data, res, code, stored, ok)
    \/ /\ last = Quiet
       /\ \E t \in TaskIds, u \in Users, text \in Codes, ok \in BOOLEAN :
             \E res \in Lookups(u = ADMIN_USER_ID) :
                 main_handle_message(t, u, "private", text, res, ok)
    \/ /\ last = Quiet
       /\ \E t \in TaskIds, ok \in BOOLEAN : main_handle_message_reply(t, ok)
    \/ process_update_returns

StoreFaultSpec == StoreFaultInit /\ [][StoreFaultNext]_vars

\* main.py with no channel configured (SUPPORT_CHANNEL_ID empty).  res is
\* what get_chat_member would answer for the sender, were it asked: the
\* senders are members of nothing in particular.
UngatedInit == Init /\ rev = "main" /\ ~gating

UngatedNext ==
    \/ /\ last = Quiet
       /\ \E u \in Users, args \in StartArgs, res \in MemberResults :
             main_start(u, args, res, TRUE)
    \/ /\ last = Quiet
       /\ \E u \in Users, chat \in ChatTypes, args \in ProtectArgs,
             encoded \in Tokens, res \in MemberResults :
             main_protect(u, chat, args, res, encoded, TRUE, FALSE)
    \/ /\ last = Quiet
       /\ \E u \in Users, data \in CallbackData, code \in Codes,
             res \in MemberResults :
             main_callback_handler(u, data, res, code, TRUE, TRUE)
    \/ /\ last = Quiet
       /\ \E t \in TaskIds, u \in Users, chat \in ChatTypes, text \in Texts,
             res \in MemberResults :
             main_handle_message(t, u, chat, text, res, TRUE)
    \/ /\ last = Quiet
       /\ \E t \in TaskIds : main_handle_message_reply(t, TRUE)
    \/ process_update_returns

UngatedSpec == UngatedInit /\ [][UngatedNext]_vars

\* main.py with one code more than Codes for generate_captcha_code to draw,
\* so that one recipient can hold Challenges with different codes: links
\* are protected, Challenges minted by the recheck button, their codes
\* asked for with the "Verify Now" button and submitted in a private chat,
\* and every message is delivered.
SeveralCodes == { [i \in 1..CodeLength |-> d] : d \in 1..(NumCodes + 1) }

SeveralInit == Init /\ rev = "main" /\ ~gating

SeveralNext ==
    \/ /\ last = Quiet
       /\ \E u \in Users, encoded \in Tokens :
             main_protect(u, "private", <<GoodLink>>, "member", encoded, TRUE,
                          FALSE)
    \/ /\ last = Quiet
       /\ \E u \in Users, tk \in Tokens, code \in SeveralCodes :
             main_callback_handler(u, <<"check", "verify", tk>>, "member", code,
                                   TRUE, TRUE)
    \/ /\ last = Quiet
       /\ \E u \in Users, tk \in Tokens, code \in SeveralCodes :
             main_callback_handler(u, <<"verify", tk>>, "member", code, TRUE,
                                   TRUE)
    \/ /\ last = Quiet
       /\ \E t \in TaskIds, u \in Users, text \in SeveralCodes :
             main_handle_message(t, u, "private", text, "member", TRUE)
    \/ /\ last = Quiet
       /\ \E t \in TaskIds : main_handle_message_reply(t, TRUE)
    \/ process_update_returns

SeveralSpec == SeveralInit /\ [][SeveralNext]_vars

\* ------------------------------------------------------------------ claims
user_docs(u) == { d \in captcha_docs : d.user_id = u }

pair_docs(cs, u, tk) ==
    { i \in 1..Len(cs) : cs[i].user_id = u /\ cs[i].encoded = tk }

quiescent == \A t \in TaskIds : tasks[t].pc = "idle"

\* the update shown by l is /start verify_<token>
StartsVerify(l) == l.handler = "start" /\ startswith(l.payload, <<"verify">>)

\* the update shown by l is the recheck button of verify_<token>
RechecksVerify(l) ==
    l.handler = "callback_handler" /\ startswith(l.payload, <<"check", "verify">>)

\* C1: of the code submissions made by one recipient while one Challenge is
\* live, however they interleave, at most one is answered with a release:
\* no captcha document is released more than once.
C1_OneReleasePerChallenge == \A i \in 1..MaxEvents : rel_cnt[i] <= 1

\* C2: a submission that repeats the code of the sender's last release, with
\* no Challenge issued since, is answered "no pending verification" (and so
\* with no release).
C2_RepeatIsNoPending ==
    (last.handler = "handle_message" /\ last.later /\ last.reply # "error")
        => last.reply = "no_pending"

\* C3: when handle_message has evaluated a Challenge, that Challenge is gone
\* when the handler is through, whether the code matched or not.
C3_EvaluatedChallengeGone ==
    (last.handler = "handle_message" /\ last.doc # 0)
        => last.doc \notin captcha_ids

\* C4: a recipient never has more than one live Challenge over all tokens.
C4_OneChallengePerRecipient ==
    \A u \in Users : Cardinality(user_docs(u)) <= 1

\* C5: a BeginVerification (/start verify_<token> past the gate, or a recheck
\* that succeeds) for a pair that already has a Challenge, the link being
\* there, leaves exactly one Challenge for the pair, and it is a new one.
C5_Reissue ==
    [][ ( /\ last = Quiet
          /\ StartsVerify(last') \/ RechecksVerify(last')
          /\ last'.gate = "passed"
          /\ last'.reply # "error"
          /\ encoded_of(last'.payload) \in link_tokens
          /\ pair_docs(captcha, last'.user, encoded_of(last'.payload)) # {} )
        => ( /\ Cardinality(pair_docs(captcha', last'.user,
                                      encoded_of(last'.payload))) = 1
             /\ \A i \in pair_docs(captcha', last'.user,
                                   encoded_of(last'.payload)) :
                    captcha'[i].id \notin captcha_ids ) ]_vars

\* C6: with a channel configured, every Challenge belongs to a recipient for
\* whom a membership check has returned success.
C6_GateBeforeChallenge ==
    gating => \A d \in captcha_docs : d.user_id \in passed

\* C6 witness: with a channel configured, the recheck button of verify_<token>
\* was refused for a recipient no check has passed, who has no Challenge.
C6_Witness ==
    /\ gating
    /\ RechecksVerify(last)
    /\ last.reply = "still_not_member"
    /\ last.user \notin passed
    /\ user_docs(last.user) = {}

\* C7: after /start verify_<token> from a recipient who passes the gate, the
\* token resolving to a link, a Challenge for (recipient, token) is live and
\* the recipient was sent the code or the reveal-code control.
C7_StartMintsChallenge ==
    ( /\ StartsVerify(last)
      /\ last.gate = "passed"
      /\ last.reply # "error"
      /\ encoded_of(last.payload) \in link_tokens )
    => ( /\ pair_docs(captcha, last.user, encoded_of(last.payload)) # {}
         /\ last.reply \in {"code_minted", "code_shown", "verify_button"} )

\* C8: the join prompt sent to a non-member who opens verify_<token> has a
\* recheck control that carries the token: check_verify_<token>.
C8_RecheckCarriesToken ==
    ( /\ StartsVerify(last)
      /\ last.gate = "stopped"
      /\ last.reply # "error" )
    => last.cb = <<"check">> \o last.payload

\* C9: a Challenge is only ever inserted for a token that resolves to a link
\* at that moment.
C9_NoChallengeWithoutLink ==
    [][ \A d \in captcha_docs' :
            d.id \notin captcha_ids => d.encoded \in link_tokens ]_vars

\* C10: verification_count starts at 0, never decreases, and whenever no
\* code submission is in progress equals the number of release messages
\* sent for the token.
C10_ReleaseCount ==
    [][ /\ \A l \in links' :
               l.encoded \notin link_tokens => l.verification_count = 0
        /\ \A l \in links : \A m \in links' :
               l.encoded = m.encoded
                   => m.verification_count >= l.verification_count
        /\ quiescent' =>
               \A l \in links' : l.verification_count = released'[l.encoded]
      ]_vars

\* C10 witness: a link with a counted release, no submission in progress.
C10_Witness ==
    /\ quiescent
    /\ \E l \in links :
           l.verification_count >= 1 /\ released[l.encoded] >= 1

\* C11: a correct code for a Challenge whose link is gone is answered "link
\* expired", never with a release: when the handler is through the Challenge
\* is removed and no verification_count has changed.
C11_PurgedLinkFailsClosed ==
    [][ \A t \in TaskIds :
            ( /\ tasks[t].pc = "reply"
              /\ tasks[t].branch = "expired"
              /\ tasks'[t].pc = "idle" )
            => ( /\ last'.reply = "expired"
                 /\ tasks[t].captcha_data.id \notin captcha_ids'
                 /\ links' = links
                 /\ released' = released ) ]_vars

\* the link of every stored document that user u did not create
foreign_links(u) == { l.group_link : l \in { m \in links : m.created_by # u } }

C13_FailOpen ==
    last.lookup \in TransportErrors => last.gate = "passed"

\* C13 (amended): when get_chat_member ends in a transport error the
\* recipient is treated as not a member: the handler sends the join prompt
\* (the recheck button its refusal) and the gated operation does not run:
\* no link, Challenge or pending submission is created or changed.
C13_FailClosed ==
    [][ (last = Quiet /\ last'.lookup \in TransportErrors)
        => ( /\ last'.gate = "stopped"
             /\ last'.reply \in {"join_prompt", "still_not_member", "error"}
             /\ links' = links
             /\ captcha' = captcha
             /\ tasks' = tasks
             /\ released' = released ) ]_vars

\* C13 witness: a lookup that timed out, answered with the join prompt.
C13_Witness ==
    /\ last.lookup \in TransportErrors
    /\ last.gate = "stopped"
    /\ last.reply = "join_prompt"

\* C14: handle_message never reads a Challenge issued more than 300 seconds
\* before (and so never releases on it).
C14_AgedChallengeUnreadable ==
    \A t \in TaskIds : tasks[t].pc = "reply" => ~tasks[t].captcha_data.aged

accepted(link) ==
    IF rev = "main" THEN validate_telegram_link(link)
    ELSE deepseek_valid_link(link)

\* C16: /protect with a link outside the grammar reports the validation
\* error and stores nothing; every stored link is inside the grammar.
C16_OnlyValidLinksStored ==
    [][ /\ \A l \in links' : accepted(l.group_link)
        /\ ( /\ last = Quiet
             /\ last'.handler = "protect"
             /\ last'.gate = "passed"
             /\ last'.payload # <<>>
             /\ ~accepted(last'.payload[1]) )
           => ( /\ links' = links
                /\ last'.reply \in {"invalid_link", "use_private", "error"}
                /\ last'.inserts = 0 ) ]_vars

\* C16 witness: a near miss of the grammar (a 4-letter public name, letters
\* after c/) was refused while a link is stored.
C16_Witness ==
    /\ last.handler = "protect"
    /\ last.reply = "invalid_link"
    /\ last.payload[1].host = "t.me"
    /\ last.payload[1].scheme = "https"
    /\ Len(last.payload[1].path) >= 1
    /\ links # {}

\* C17: no two links share a token, and a /protect whose token is taken
\* leaves every stored link as it was.
C17_TokenUnique ==
    [][ /\ \A l \in links', m \in links' : l.encoded = m.encoded => l = m
        /\ (last = Quiet /\ last'.handler = "protect") => links \subseteq links'
      ]_vars

\* C17 witness: a /protect drew a token that is taken and was refused: the
\* link it brought is not stored.
C17_Witness ==
    /\ last.handler = "protect"
    /\ last.reply = "error_occurred"
    /\ last.inserts = 1
    /\ links # {}
    /\ \A l \in links :
          l.created_by # last.user \/ l.group_link # last.payload[1]

\* C18: a /protect that reports a failure and has not stored its link has
\* called insert_one twice, the second time with a newly generated token.
C18_RetryOnce ==
    (/\ last.handler = "protect"
     /\ last.reply = "error_occurred"
     /\ \A l \in links :
           l.created_by # last.user \/ l.group_link # last.payload[1])
    => last.inserts = 2

\* C19: a /broadcast sent by anyone but the operator is answered with the
\* fixed rejection (with the error report when that reply is not delivered)
\* and changes nothing: no send is attempted, no run starts, no record is
\* written and the directory stays as it was.
C19_NonOperatorRejected ==
    [][ (last = Quiet /\ last'.handler = "broadcast"
            /\ last'.user # ADMIN_USER_ID)
        => (/\ last'.reply \in {"admins_only", "error"}
            /\ runs' = runs
            /\ broadcasts' = broadcasts
            /\ users' = users) ]_vars

\* A user who is not the operator sends /broadcast with a text while the
\* directory holds recipients, and is turned away.
C19_Witness ==
    /\ last.handler = "broadcast"
    /\ last.user # ADMIN_USER_ID
    /\ last.payload = <<"text">>
    /\ last.reply = "admins_only"
    /\ users # {}

\* the number of sends awaited so far whose outcome is in S
count_of(results, S) ==
    Cardinality({ i \in 1..Len(results) : results[i] \in S })

\* C20: in every run success_count is the number of recipients of the
\* snapshot the send to whom returned, failed_count the number the send to
\* whom raised, and their sum the number of recipients processed so far;
\* when the run ends the sum is total_users, and the summary shows these
\* numbers.
C20_CountersMatch ==
    [][ \A r \in RunIds :
          /\ runs'[r].success_count = count_of(runs'[r].results, {"ok"})
          /\ runs'[r].failed_count
                = count_of(runs'[r].results, SendResults \ {"ok"})
          /\ runs'[r].success_count + runs'[r].failed_count
                = Len(runs'[r].results)
          /\ (runs[r].pc = "final" /\ runs'[r].pc = "idle")
                => /\ runs[r].success_count + runs[r].failed_count
                         = runs[r].total_users
                   /\ Len(runs[r].results) = Len(runs[r].all_users)
                   /\ last'.reply = "summary"
                         => last'.payload
                               = <<runs[r].total_users,
                                   count_of(runs[r].results, {"ok"}),
                                   count_of(runs[r].results,
                                            SendResults \ {"ok"})>> ]_vars

\* The summary of a run over two recipients is out: one send returned, one
\* raised.
C20_Witness ==
    /\ last.handler = "broadcast"
    /\ last.reply = "summary"
    /\ last.payload = <<2, 1, 1>>

\* the user ids the directory holds
directory_ids(us) == { d.user_id : d \in us }

\* the failures the directory takes as final: the recipient blocked the
\* sender, or the chat is not there any more
PermanentFailures == {"bot was blocked", "chat not found"}

\* a pass of the loop of run r took place in this step
pass_of(r) == runs[r].pc = "loop" /\ Len(runs'[r].results) = Len(runs[r].results) + 1

\* C21: a recipient leaves the directory if and only if a pass of a
\* broadcast run met a permanent failure for that recipient: after such a
\* pass the recipient is not in the directory, after a pass that succeeded
\* or failed otherwise the directory is as before, and no other step takes
\* anyone out of the directory.
C21_DeletedIffPermanent ==
    [][ /\ \A r \in RunIds :
              pass_of(r)
              => LET n == Len(runs'[r].results)
                 IN  IF runs'[r].results[n] \in PermanentFailures
                     THEN directory_ids(users')
                             = directory_ids(users) \ {runs'[r].sent_to[n]}
                     ELSE users' = users
        /\ directory_ids(users) \subseteq directory_ids(users')
              \/ \E r \in RunIds : pass_of(r) ]_vars

\* A run has met a blocked recipient, who is gone from the directory, and a
\* recipient whose send timed out, who is still there.
C21_Witness ==
    \E r \in RunIds :
        /\ runs[r].results = <<"bot was blocked", "timed out">>
        /\ runs[r].sent_to[1] \notin directory_ids(users)
        /\ runs[r].sent_to[2] \in directory_ids(users)

\* C22: a run works on the list of ids it read at its start: the list does
\* not change while the run lasts and names nobody twice, the passes go to
\* its entries in order, one pass each, whoever has joined or left the
\* directory since, and when the run ends every entry has had its pass.
C22_SnapshotFixed ==
    [][ \A r \in RunIds :
          /\ (runs[r].pc # "idle" /\ runs'[r].pc # "idle")
                => runs'[r].all_users = runs[r].all_users
          /\ \A i, j \in 1..Len(runs'[r].all_users) :
                runs'[r].all_users[i] = runs'[r].all_users[j] => i = j
          /\ Len(runs'[r].sent_to) <= Len(runs'[r].all_users)
          /\ \A i \in 1..Len(runs'[r].sent_to) :
                runs'[r].sent_to[i] = runs'[r].all_users[i]
          /\ (runs[r].pc = "final" /\ runs'[r].pc = "idle")
                => runs[r].sent_to = runs[r].all_users ]_vars

\* A run is through its list; a user who registered after its start is in
\* the directory and not on the list, and a recipient of the list whom
\* another run removed from the directory has had a send all the same.
C22_Witness ==
    \E r \in RunIds :
        /\ runs[r].pc = "final"
        /\ runs[r].sent_to = runs[r].all_users
        /\ \E u \in directory_ids(users) :
              \A i \in 1..Len(runs[r].all_users) : runs[r].all_users[i] # u
        /\ \E i \in 1..Len(runs[r].sent_to) :
              /\ runs[r].sent_to[i] \notin directory_ids(users)
              /\ runs[r].results[i] = "ok"

\* C23: whenever the number of recipients a run has processed is a multiple
\* of 10, the status message was edited at that number, whether the pass
\* that reached it ended in a success or in a failure.
C23_StatusEveryTen ==
    \A r \in RunIds :
        \A k \in 1..Len(runs[r].results) :
            k % StatusEvery = 0
            => \E i \in 1..Len(runs[r].edits) : runs[r].edits[i] = k

\* The part of C23 that the loop keeps: the status message is edited at
\* every multiple of 10 that a successful send reaches, and at no other
\* point of the loop.
StatusEditedAfterSuccess ==
    \A r \in RunIds :
        \A k \in 1..Len(runs[r].results) :
            (k % StatusEvery = 0 /\ runs[r].results[k] = "ok")
            <=> \E i \in 1..Len(runs[r].edits) : runs[r].edits[i] = k

\* C24: between two consecutive sends of a run the delay has been awaited,
\* after a send that raised as well as after one that returned.
C24_DelayBetweenSends ==
    \A r \in RunIds :
        \A k \in 1..Len(runs[r].results) :
            k < Len(runs[r].results) => runs[r].slept[k]

\* The part of C24 that the loop keeps: the delay follows every send that
\* returned and no send that raised.
DelayAfterSuccess ==
    \A r \in RunIds :
        \A k \in 1..Len(runs[r].results) :
            runs[r].slept[k] <=> runs[r].results[k] = "ok"

\* C25: a run that starts its loop has a record of status "sending" in
\* broadcasts_collection; when the run ends, whatever its sends and edits
\* did, that record is "completed" with the final counters; a completed
\* record is never changed again.
C25_RunRecorded ==
    [][ /\ \A r \in RunIds :
              /\ (runs[r].pc = "idle" /\ runs'[r].pc = "loop")
                    => \E b \in broadcasts' :
                          /\ b.broadcast_id = runs'[r].broadcast_id
                          /\ b.status = "sending"
              /\ (runs[r].pc = "final" /\ runs'[r].pc = "idle")
                    => \E b \in broadcasts' :
                          /\ b.broadcast_id = runs[r].broadcast_id
                          /\ b.status = "completed"
                          /\ b.sent_count = runs[r].success_count
                          /\ b.failed_count = runs[r].failed_count
        /\ \A b \in broadcasts : b.status = "completed" => b \in broadcasts'
      ]_vars

\* C26: runs that interleave do not touch each other: a step changes the
\* locals of one run at most, a run ends with success_count + failed_count
\* equal to the length of its own list, and the delete of a recipient whom
\* another run has removed already leaves the directory as it is and is
\* counted as a failure like any other.
C26_RunsIndependent ==
    [][ /\ \A r \in RunIds, q \in RunIds :
              (r # q /\ runs'[r] # runs[r]) => runs'[q] = runs[q]
        /\ \A r \in RunIds :
              /\ (runs[r].pc = "final" /\ runs'[r].pc = "idle")
                    => /\ runs[r].success_count + runs[r].failed_count
                             = Len(runs[r].all_users)
                       /\ runs[r].total_users = Len(runs[r].all_users)
              /\ (pass_of(r)
                    /\ runs'[r].results[Len(runs'[r].results)]
                          \in PermanentFailures
                    /\ runs'[r].sent_to[Len(runs'[r].sent_to)]
                          \notin directory_ids(users))
                    => /\ users' = users
                       /\ runs'[r].failed_count = runs[r].failed_count + 1
                       /\ runs'[r].pc \in {"loop", "final"} ]_vars

\* Two runs are under way at once and each has met the same blocked
\* recipient.
C26_Witness ==
    \E r \in RunIds, q \in RunIds :
        /\ r # q
        /\ runs[r].pc # "idle"
        /\ runs[q].pc # "idle"
        /\ \E i \in 1..Len(runs[r].results), j \in 1..Len(runs[q].results) :
              /\ runs[r].sent_to[i] = runs[q].sent_to[j]
              /\ runs[r].results[i] = "bot was blocked"
              /\ runs[q].results[j] = "bot was blocked"

\* message_count of user u in the directory, 0 when u has no record
message_count_of(us, u) ==
    IF \E d \in us : d.user_id = u
    THEN (CHOOSE d \in us : d.user_id = u).message_count
    ELSE 0

\* C27: every update dispatched for a user (command, text or button press,
\* stopped at the membership gate or not) leaves the user with a record
\* whose message_count is one more than before, 0 standing for no record.
C27_InteractionCount ==
    [][ nevents' = nevents + 1
        => \A u \in Users :
              (\/ (last = Quiet /\ last' # Quiet /\ last'.user = u)
               \/ \E t \in TaskIds : /\ tasks[t].pc = "idle"
                                     /\ tasks'[t].pc = "reply"
                                     /\ tasks'[t].user = u)
              => message_count_of(users', u) = message_count_of(users, u) + 1
      ]_vars

\* The part of C27 that main.py keeps: /start always, and /protect and a
\* text message that pass the membership gate, add one to message_count.
CountedWherePassed ==
    [][ (rev = "main" /\ nevents' = nevents + 1)
        => \A u \in Users :
              (\/ (last = Quiet /\ last' # Quiet /\ last'.user = u
                     /\ last'.handler # "callback_handler"
                     /\ (last'.handler = "start" \/ last'.gate = "passed"))
               \/ \E t \in TaskIds : /\ tasks[t].pc = "idle"
                                     /\ tasks'[t].pc = "reply"
                                     /\ tasks'[t].user = u)
              => message_count_of(users', u) = message_count_of(users, u) + 1
      ]_vars

\* C28: a press of "check_verify_<t>" that passed the gate and left no
\* Challenge stored has tried the insert twice, and is answered with the
\* failure report and no "Verify Now" button.
C28_InsertRetried ==
    (/\ last.handler = "callback_handler"
     /\ last.inserts > 0
     /\ last.doc = 0)
    => (last.inserts = 2 /\ last.reply = "error")

\* The part of C28 that the handler keeps: when the insert has failed no
\* "Verify Now" button is shown, the user gets the failure report, and no
\* Challenge for the pair is in the store.
NoButtonWithoutChallenge ==
    (/\ last.handler = "callback_handler"
     /\ last.inserts > 0
     /\ last.doc = 0)
    => /\ last.reply = "error"
       /\ pair_docs(captcha, last.user, encoded_of(last.payload)) = {}

\* C29: no update ends with an exception leaving its handler: whatever the
\* transport or the store does, the handler itself brings the update to an
\* end and error_handler is not called.
C29_NoExceptionEscapes == last.reply # "error"

\* C30: captcha_collection never holds two documents for one pair of user
\* and token.
C30_OneChallengePerPair ==
    \A i, j \in 1..Len(captcha) :
        (captcha[i].user_id = captcha[j].user_id
            /\ captcha[i].encoded = captcha[j].encoded) => i = j

\* A text message has read the first Challenge of a pair and waits for its
\* reply; meanwhile the user pressed "check_verify_<t>" again and the store
\* holds the second Challenge of the pair, and that one only.
C30_Witness ==
    \E t \in TaskIds, i \in 1..Len(captcha) :
        /\ tasks[t].pc = "reply"
        /\ tasks[t].captcha_data.id = 1
        /\ captcha[i].id = 2
        /\ captcha[i].user_id = tasks[t].user
        /\ captcha[i].encoded = tasks[t].captcha_data.encoded
        /\ Cardinality(pair_docs(captcha, captcha[i].user_id,
                                 captcha[i].encoded)) = 1
\* the Challenge a press of "check_verify_<t>" has just stored
minted_doc(l) == CHOOSE d \in captcha_docs : d.id = l.doc

\* C31: the code of a Challenge that a handler has just stored differs from
\* the code of every other Challenge in the store, unless the handler drew
\* MaxRegenerations new codes and each of them was taken too.
C31_FreshCode ==
    (/\ last.handler \in {"start", "callback_handler"}
     /\ last.doc # 0
     /\ last.doc \in captcha_ids)
    => \/ \A d \in captcha_docs :
             d.id # last.doc
                => d.captcha_code # minted_doc(last).captcha_code
       \/ last.regenerations = MaxRegenerations

\* C32: with no channel configured every update passes the membership
\* gate without a lookup, no join prompt and no "still not a member" message
\* is sent, and nobody is held at the gate.
C32_Ungated ==
    ~gating
    => /\ last.gate # "stopped"
       /\ last.lookup = "none"
       /\ last.reply \notin {"join_prompt", "still_not_member"}

\* With no channel configured, a user who is not the operator pressed
\* "check_verify_<t>" and got the "Verify Now" button, sent the code and was
\* answered with the release.
C32_Witness ==
    /\ ~gating
    /\ last.user # ADMIN_USER_ID
    /\ last.handler = "handle_message"
    /\ last.gate = "passed"
    /\ last.reply = "release"

\* the _ids of the documents of cs
ids_of(cs) == { cs[i].id : i \in 1..Len(cs) }

\* C33: when the reply to a wrong code, or to a right code whose link is
\* gone, has been sent, the delete that follows removes no Challenge but the
\* one the submission read and compared.
C33_DeletesOnlyWhatItRead ==
    [][ \A t \in TaskIds :
           (/\ tasks[t].pc = "reply"
            /\ tasks'[t].pc = "idle"
            /\ tasks[t].branch \in {"incorrect", "expired"})
           => (ids_of(captcha) \ ids_of(captcha'))
                 \subseteq {tasks[t].captcha_data.id}
      ]_vars

\* the Challenges of user u in cs whose code is text and whose link is stored
matching_docs(cs, ls, u, text) ==
    { i \in positions(cs, u) :
        cs[i].captcha_code = text /\ find_link(ls, cs[i].encoded) # NoDoc }

\* C34: a submitted code that equals the code of one of the sender's
\* Challenges whose link is stored is judged a match, and the release it
\* gets is for such a Challenge.
C34_MatchingCodeReleases ==
    [][ \A t \in TaskIds :
           (/\ tasks[t].pc = "idle"
            /\ tasks'[t].pc = "reply"
            /\ matching_docs(captcha, links, tasks'[t].user,
                             tasks'[t].text) # {})
           => /\ tasks'[t].branch = "release"
              /\ \E i \in matching_docs(captcha, links, tasks'[t].user,
                                        tasks'[t].text) :
                    captcha[i].id = tasks'[t].captcha_data.id
      ]_vars

\* The part of C34 that handle_message keeps: the code of the sender's first
\* Challenge in the store, when its link is stored, gets the release.
FirstChallengeReleases ==
    [][ \A t \in TaskIds :
           (/\ tasks[t].pc = "idle"
            /\ tasks'[t].pc = "reply"
            /\ first_pos(positions(captcha, tasks'[t].user))
                  \in matching_docs(captcha, links, tasks'[t].user,
                                    tasks'[t].text))
           => tasks'[t].branch = "release"
      ]_vars

\* C35: a text message is answered with the release only if its sender is
\* the operator or passed the membership check when the text came in (no
\* channel configured, or get_chat_member answered with a member status);
\* a sender whom the lookup does not show as a member gets the join prompt,
\* no task is started for the text, and captcha_collection, links_collection
\* and users_collection stay as they were.
C35_ReleaseOnlyPastGate ==
    /\ [](\A t \in TaskIds :
             tasks[t].pc = "reply"
                => \/ tasks[t].user = ADMIN_USER_ID
                   \/ ~gating
                   \/ tasks[t].lookup \in MemberStatuses)
    /\ [](last.reply = "release"
             => \/ last.user = ADMIN_USER_ID
                \/ ~gating
                \/ last.lookup \in MemberStatuses)
    /\ [][ (/\ last = Quiet
            /\ last'.handler = "handle_message"
            /\ last'.lookup \notin MemberStatuses \cup {"none"})
           => /\ last'.reply \in {"join_prompt", "error"}
              /\ UNCHANGED <<captcha, links, users, tasks, released, rel_cnt>>
         ]_vars

\* A user who passed the membership check before and holds a Challenge whose
\* link is stored sends its code in the private chat after leaving the
\* channel, and is answered with the join prompt.
C35_Witness ==
    /\ gating
    /\ last.handler = "handle_message"
    /\ last.user \in passed
    /\ last.lookup = "left"
    /\ last.reply = "join_prompt"
    /\ matching_docs(captcha, links, last.user, last.payload) # {}

\* the verification_count of the link of token tk in ls, 0 when it has none
verification_count_of(ls, tk) ==
    IF find_link(ls, tk) = NoDoc THEN 0
    ELSE find_link(ls, tk).verification_count

\* C36: verification_count grows only in a step that has sent the release,
\* and a submission of the right code whose release could not be sent
\* leaves captcha_collection and links_collection as they were.
C36_ConsumeAfterSend ==
    [][ /\ (\E tk \in Tokens :
               verification_count_of(links', tk)
                  > verification_count_of(links, tk))
           => last'.reply = "release"
        /\ \A t \in TaskIds :
              (/\ tasks[t].pc = "reply"
               /\ tasks'[t].pc = "idle"
               /\ tasks[t].branch = "release"
               /\ last'.reply # "release")
              => /\ captcha' = captcha
                 /\ links' = links
                 /\ released' = released
      ]_vars

\* The release for the right code could not be sent: the Challenge is still
\* stored with that code, and its link with the count it had.
C36_Witness ==
    /\ last.handler = "handle_message"
    /\ last.reply = "error"
    /\ \E i \in 1..Len(captcha) :
          /\ captcha[i].id = last.doc
          /\ captcha[i].user_id = last.user
          /\ captcha[i].captcha_code = last.payload
          /\ find_link(links, captcha[i].encoded) # NoDoc
          /\ verification_count_of(links, captcha[i].encoded) = 0
          /\ released[captcha[i].encoded] = 0

\* the update shown by l is a press of the "Verify Now" button, verify_<t>
RevealsCode(l) ==
    l.handler = "callback_handler" /\ startswith(l.payload, <<"verify">>)

\* C37: a press of verify_<t> writes to no collection; when the store holds
\* a Challenge for the pressing user and t the message shows the code of
\* that Challenge, and when it holds none the message says that no
\* verification is pending (a failed send apart).
C37_RevealReadsOnly ==
    [][ (rev = "main" /\ last = Quiet /\ RevealsCode(last'))
        => /\ UNCHANGED <<captcha, links, users, broadcasts, released, rel_cnt>>
           /\ LET doc == find_captcha(captcha, last'.user,
                                      encoded_of(last'.payload))
              IN  IF doc = NoDoc
                  THEN last'.reply \in {"no_pending", "error"}
                  ELSE \/ last'.reply = "error"
                       \/ /\ last'.reply = "code_shown"
                          /\ last'.cb = doc.captcha_code
      ]_vars

\* Two users hold Challenges for one token with different codes; one of
\* them pressed verify_<t> and was shown the own code.
C37_Witness ==
    /\ RevealsCode(last)
    /\ last.reply = "code_shown"
    /\ \E i, j \in 1..Len(captcha) :
          /\ captcha[i].user_id = last.user
          /\ captcha[j].user_id # last.user
          /\ captcha[i].encoded = encoded_of(last.payload)
          /\ captcha[j].encoded = encoded_of(last.payload)
          /\ captcha[i].captcha_code = last.cb
          /\ captcha[j].captcha_code # last.cb

\* C38: a text message that came in a chat that is not private leaves
\* links_collection and captcha_collection as they were, starts no wait for
\* a reply and is not answered with the release; every submission that
\* waits for its reply came in a private chat.
C38_GroupTextInert ==
    /\ [](\A t \in TaskIds : tasks[t].pc = "reply" => tasks[t].chat = "private")
    /\ [][ (/\ last = Quiet
            /\ last'.handler = "handle_message"
            /\ last'.chat # "private")
           => /\ UNCHANGED <<links, captcha, tasks, released, rel_cnt>>
              /\ last'.reply # "release"
         ]_vars

\* The code of the sender's Challenge, whose link is stored, came in a group
\* chat and passed the membership gate.
C38_Witness ==
    /\ last.handler = "handle_message"
    /\ last.chat = "group"
    /\ last.gate = "passed"
    /\ last.reply = "none"
    /\ matching_docs(captcha, links, last.user, last.payload) # {}

\* the update shown by l is a broadcast of the operator: /broadcast in reply
\* to a message, or with a text
OperatorBroadcasts(l) ==
    /\ l.handler = "broadcast"
    /\ l.user = ADMIN_USER_ID
    /\ l.payload \in {<<"replied">>, <<"text">>}

\* C39: a broadcast of the operator that finds users_collection empty starts
\* no run (nothing is sent to anybody), writes nothing to
\* broadcasts_collection and is answered with "No users found"; every run
\* under way and every summary has total_users > 0, the divisor of the
\* success rate.
C39_EmptyDirectory ==
    /\ [][ (last = Quiet /\ OperatorBroadcasts(last') /\ users = {})
           => /\ last'.reply \in {"no_users", "error"}
              /\ UNCHANGED <<runs, broadcasts, users>>
         ]_vars
    /\ [](\A r \in RunIds : runs[r].pc # "idle" => runs[r].total_users > 0)
    /\ [](last.reply = "summary" => last.payload[1] > 0)

\* The operator's broadcast found no users: the directory is empty, no run
\* is under way, no record is written.
C39_Witness ==
    /\ OperatorBroadcasts(last)
    /\ last.reply = "no_users"
    /\ users = {}
    /\ broadcasts = {}
    /\ \A r \in RunIds : runs[r].pc = "idle"
====
